---------------------------- MODULE Spec2Model ----------------------------
(***************************************************************************)
(* Model of src/transformer/Dataset.py: the batch accumulator (class       *)
(* Batch) and the iteration pass of the batching engine                    *)
(* (Dataset.__iter__).                                                     *)
(*                                                                         *)
(* Conventions.  Python lists are TLA+ sequences, so the element the code  *)
(* reads as x[i] is x[i+1] here.  Example positions keep the code's values *)
(* (0 .. n_lines-1); sides are numbered 1 .. n_files, side 1 being the     *)
(* code's side 0.                                                          *)
(***************************************************************************)
EXTENDS Integers, Sequences, FiniteSets, TLC

(***************************************************************************)
(* Bounds of the model.                                                    *)
(***************************************************************************)
\* largest number of examples (lines) of a corpus
MaxLines == 3
\* largest raw length (number of ids) of a stored line
MaxLen == 5
\* largest number of entries of a vocabulary file
MaxVocab == 5

\* raw lengths of the stored lines: empty, one id, the longest
LineLens == {0, 1, MaxLen}
\* orders np.argsort (default kind, not stable by contract) may leave equal keys in:
\* the order they came in ("stable", the insertion sort of short arrays) or another
\* one ("reversed", standing for the builds and lengths that reorder them)
ArgSortTies == {"stable", "reversed"}

\* number of parallel sides of the modelled corpora
SideCounts == {2}
\* values of batch_size tried
BatchSizes == {2, 3, 4, 6}
\* values of batch_type accepted by Batch.__init__
BatchTypes == {"sentences", "tokens"}
\* values of max_length tried (0: no filtering)
MaxLengths == {0, 1}
\* ids the stored lines are made of: <unk> and three ordinary tokens
TokenIds == <<4, 1, 5, 6>>

(***************************************************************************)
(* Vocab: the reserved ids every Vocab object carries.                     *)
(***************************************************************************)
idx_pad_v == 0
idx_unk_v == 1
idx_bos_v == 2
idx_eos_v == 3

(***************************************************************************)
(* Small helpers for Python built-ins.                                     *)
(***************************************************************************)
Max(a, b) == IF a >= b THEN a ELSE b

RECURSIVE MaxOfSeq(_)
\* max([...]) of a non-empty list
MaxOfSeq(q) == IF Len(q) = 1 THEN q[1] ELSE Max(q[1], MaxOfSeq(Tail(q)))

Range(q) == {q[i] : i \in 1..Len(q)}

\* the outcomes of the random source when it shuffles a list of n elements: the
\* permutations of 1..n
Perms(n) == {f \in [1..n -> 1..n] : \A i, j \in 1..n : f[i] = f[j] => i = j}

\* np.random.shuffle(q) when the random source's outcome is p
Shuffle(q, p) == [i \in 1..Len(q) |-> q[p[i]]]

\* [i for i in range(n)]
RangeList(n) == [i \in 1..n |-> i - 1]

VARIABLES
  File_Line_Idx,  \* Dataset.File_Line_Idx: per side, per line, the id sequence
  idx_bos,        \* Dataset.idx_bos: per side, the begin marker id
  idx_eos,        \* Dataset.idx_eos: per side, the end marker id
  shard_size,     \* Dataset.shard_size
  batch_size,     \* Dataset.batch_size, handed to Batch.batch_size
  batch_type,     \* Dataset.batch_type, handed to Batch.batch_type
  max_length,     \* Dataset.max_length
  b,              \* the Batch object: [Pos, max_lens]
  call,           \* the last call made on b: operation, arguments, result, state before
  pc,             \* position of the generator / of the driver of b
  Pos,            \* __iter__: the shuffled positions of the pass
  shards,         \* __iter__: the shards of the pass
  s,              \* __iter__: number of shards already entered
  batchs,         \* __iter__: the batches packed from the current shard
  idx_batchs,     \* __iter__: the shuffled order of the current shard's batches
  k,              \* __iter__: number of batches of the current shard already yielded
  out,            \* what the current pass has yielded so far, in order
  pass,           \* number of the pass in progress (or last finished)
  rnd,            \* outcomes of the random source in the first pass
  first,          \* the shards and the yielded batches of the first pass
  argsort_ties,   \* how this build's np.argsort orders equal keys
  ftxts,          \* the corpus files handed to Dataset.__init__: per side, the lines as ids
  made,           \* the fields of the Dataset as __init__ left them
  voc             \* the Vocab object and the lines of the file it is read from

fixedVars == <<argsort_ties, ftxts, made, voc>>
dsVars == <<File_Line_Idx, idx_bos, idx_eos, shard_size, batch_size, batch_type, max_length,
            fixedVars>>
itVars == <<Pos, shards, s, batchs, idx_batchs, k, out, pass, rnd, first>>
vars == <<File_Line_Idx, idx_bos, idx_eos, shard_size, batch_size, batch_type, max_length,
          b, call, pc, Pos, shards, s, batchs, idx_batchs, k, out, pass, rnd, first,
          argsort_ties, ftxts, made, voc>>

(***************************************************************************)
(* class Batch                                                             *)
(***************************************************************************)
\* Batch.reset(n_files)
BatchReset(n_files) == [Pos |-> <<>>, max_lens |-> [i \in 1..n_files |-> 0]]

\* Batch.__len__
BatchLen(bb) == Len(bb.Pos)

RECURSIVE TokensFit_SizeNotCounted(_, _, _, _)
\* TokensFit with the candidate left out of the count: len(self.Pos) for len(self.Pos)+1
TokensFit_SizeNotCounted(bb, lens, bsize, i) ==
  IF i > Len(lens) THEN TRUE
  ELSE IF Max(bb.max_lens[i], lens[i]) * Len(bb.Pos) > bsize THEN FALSE
  ELSE TokensFit_SizeNotCounted(bb, lens, bsize, i + 1)

\* TokensFit testing the first side only
TokensFit_FirstSideOnly(bb, lens, bsize, i) ==
  IF i > Len(lens) THEN TRUE
  ELSE ~(Max(bb.max_lens[i], lens[i]) * (Len(bb.Pos) + 1) > bsize)

RECURSIVE TokensFit_OnlyGrowing(_, _, _, _)
\* TokensFit testing only the sides whose maximum the candidate would raise
TokensFit_OnlyGrowing(bb, lens, bsize, i) ==
  IF i > Len(lens) THEN TRUE
  ELSE IF lens[i] > bb.max_lens[i] /\ lens[i] * (Len(bb.Pos) + 1) > bsize THEN FALSE
  ELSE TokensFit_OnlyGrowing(bb, lens, bsize, i + 1)

RECURSIVE TokensFit(_, _, _, _)
\* the loop of Batch.add under 'tokens', from side i on: FALSE as soon as one side
\* overflows; the loop reads max_lens and writes nothing
TokensFit(bb, lens, bsize, i) ==
  IF i > Len(lens) THEN TRUE
  ELSE IF Max(bb.max_lens[i], lens[i]) * (Len(bb.Pos) + 1) > bsize THEN FALSE
  ELSE TokensFit(bb, lens, bsize, i + 1)

\* BatchFits with the token test applied whatever the policy
BatchFits_IgnoresType(bb, lens, bsize, btype) == TokensFit(bb, lens, bsize, 1)

\* BatchFits with the sentence test len(self.Pos) > batch_size
BatchFits_OneTooMany(bb, lens, bsize, btype) ==
  IF btype = "tokens" THEN TokensFit(bb, lens, bsize, 1)
  ELSE ~(Len(bb.Pos) > bsize)

\* the test at the top of Batch.add: does the new example fit in the current batch
BatchFits(bb, lens, bsize, btype) ==
  IF btype = "tokens" THEN TokensFit(bb, lens, bsize, 1)
  ELSE Len(bb.Pos) # bsize

\* Batch.add, the accepting part: append pos, raise every maximum
BatchAccept(bb, pos, lens) ==
  [Pos |-> Append(bb.Pos, pos),
   max_lens |-> [i \in 1..Len(bb.max_lens) |->
                   IF i <= Len(lens) THEN Max(bb.max_lens[i], lens[i]) ELSE bb.max_lens[i]]]

\* Batch.add raising the maximum of the first side inside the test loop, before a
\* later side refuses the example
BatchAdd_EagerMax(bb, pos, lens, bsize, btype) ==
  IF BatchFits(bb, lens, bsize, btype)
  THEN [ret |-> TRUE, b |-> BatchAccept(bb, pos, lens)]
  ELSE [ret |-> FALSE,
        b |-> IF btype = "tokens" /\ TokensFit(bb, <<lens[1]>>, bsize, 1)
              THEN [bb EXCEPT !.max_lens[1] = Max(@, lens[1])]
              ELSE bb]

\* Batch.add(pos, lens): the returned value and the object afterwards
BatchAdd(bb, pos, lens, bsize, btype) ==
  IF BatchFits(bb, lens, bsize, btype)
  THEN [ret |-> TRUE, b |-> BatchAccept(bb, pos, lens)]
  ELSE [ret |-> FALSE, b |-> bb]


(***************************************************************************)
(* class Dataset: the state __init__ leaves behind.                        *)
(***************************************************************************)
\* the ids of a line of the given side, position and raw length
LineOf(n, pos, len) == [j \in 1..len |-> TokenIds[((n + pos + j) % Len(TokenIds)) + 1]]

\* File_Line_Idx for the raw lengths L[n][p] of line p of side n
CorpusOf(L) == [n \in 1..Len(L) |-> [p \in 1..Len(L[n]) |-> LineOf(n, p - 1, L[n][p])]]

RECURSIVE SumLens(_)
\* n_tok of flatten_count: the number of ids of a side
SumLens(lens) == IF lens = <<>> THEN 0 ELSE Head(lens) + SumLens(Tail(lens))

\* what the statistics line does with 100.0*n_unk/n_tok: it passes for a side with
\* ids; for a side without ids it raises when n_tok is a Python number
\* (ZeroDivisionError) and passes when it is a numpy scalar (nan and a warning).
\* flatten_count is not part of the sources at hand, so both are possible.
StatsOutcomes(cnt) == IF cnt.n_tok = 0 THEN {"raises", "passes"} ELSE {"passes"}

\* __init__ can complete for sides of raw lengths L: the sides are parallel, and the
\* statistics line can pass for every side
Constructed(L) ==
  /\ \A n \in 1..Len(L) : Len(L[n]) = Len(L[1])
  /\ \A n \in 1..Len(L) : "passes" \in StatsOutcomes([n_tok |-> SumLens(L[n]), n_unk |-> 0])

\* the raw lengths of line p, side by side
LensAt(L, p) == [n \in 1..Len(L) |-> L[n][p]]

\* lexicographic order on length tuples
LexLeq(x, y) ==
  \/ x = y
  \/ \E i \in 1..Len(x) : x[i] < y[i] /\ \A j \in 1..(i - 1) : x[j] = y[j]

\* the lines come in ascending order of their length tuples.  The engine reads the
\* lines only through the positions of the shuffled list, and the shuffle gives
\* every order of them, so every arrangement of the same lines is the image of an
\* ordered one under a renaming of the positions.
Ordered(L) == \A p \in 1..(Len(L[1]) - 1) : LexLeq(LensAt(L, p), LensAt(L, p + 1))

\* the raw lengths of the corpora with nf sides and nl lines a side, every line of
\* raw length in LineLens, that __init__ accepts, one per arrangement
Profiles(nf, nl) ==
  {L \in [1..nf -> [1..nl -> LineLens]] : Constructed(L) /\ Ordered(L)}

\* the corpora the passes are run on
Corpora ==
  UNION {{CorpusOf(L) : L \in Profiles(nf, nl)} : nf \in SideCounts, nl \in 1..MaxLines}

(***************************************************************************)
(* Dataset.__iter__, the pure parts.                                       *)
(***************************************************************************)
\* self.shard_size after "if self.shard_size == 0: self.shard_size = n_lines"
NewShardSize(ssize, n_lines) == IF ssize = 0 THEN n_lines ELSE ssize

\* Pos[i:i+size], i counted from 0
Slice(q, i, size) ==
  LET hi == IF i + size < Len(q) THEN i + size ELSE Len(q)
  IN [j \in 1..(hi - i) |-> q[i + j]]

\* MakeShards starting a chunk at every index, the step of range() forgotten
MakeShards_EveryStart(P, size) == [c \in 1..Len(P) |-> Slice(P, c - 1, size)]

\* [Pos[i:i+size] for i in range(0, n_lines, size)], size > 0
MakeShards(P, size) ==
  LET n == Len(P)
      cnt == (n + size - 1) \div size
  IN [c \in 1..cnt |-> Slice(P, (c - 1) * size, size)]

\* [len(File_Line_Idx[n][pos]) for n in range(n_files)]
RawLens(F, pos) == [n \in 1..Len(F) |-> Len(F[n][pos + 1])]

\* Kept dropping the lines of exactly max_length ids as well
Kept_DropsEqual(F, mlen, pos) ==
  IF mlen # 0 THEN MaxOfSeq(RawLens(F, pos)) < mlen ELSE TRUE

\* the filter of "build shard": FALSE where the loop hits "continue"
Kept(F, mlen, pos) ==
  IF mlen # 0 THEN ~(MaxOfSeq(RawLens(F, pos)) > mlen) ELSE TRUE

RECURSIVE FilterShard(_, _, _)
\* shard_pos after the "build shard" loop
FilterShard(F, mlen, shard) ==
  IF shard = <<>> THEN <<>>
  ELSE IF Kept(F, mlen, Head(shard))
       THEN <<Head(shard)>> \o FilterShard(F, mlen, Tail(shard))
       ELSE FilterShard(F, mlen, Tail(shard))

\* ShardLen recording the length on the last side
ShardLen_LastSide(F, shard_pos) == [i \in 1..Len(shard_pos) |-> Len(F[Len(F)][shard_pos[i] + 1])]

\* shard_len: the side-0 raw length of every kept position
ShardLen(F, shard_pos) == [i \in 1..Len(shard_pos) |-> Len(F[1][shard_pos[i] + 1])]

\* where index j goes in the sorted index list acc: before the indices of larger
\* keys, and after those of equal keys unless this build reorders equal keys
InsertAt(acc, j, key) ==
  LET later == {p \in 1..Len(acc) :
                  \/ key[acc[p]] > key[j]
                  \/ argsort_ties = "reversed" /\ key[acc[p]] = key[j]}
      at == IF later = {} THEN Len(acc) + 1 ELSE CHOOSE p \in later : \A q \in later : p <= q
  IN [i \in 1..(Len(acc) + 1) |->
        IF i < at THEN acc[i] ELSE IF i = at THEN j ELSE acc[i - 1]]

RECURSIVE ArgSortFrom(_, _, _)
ArgSortFrom(key, j, acc) ==
  IF j > Len(key) THEN acc ELSE ArgSortFrom(key, j + 1, InsertAt(acc, j, key))

\* np.argsort(shard_len), as indices 1..Len
ArgSort(key) == ArgSortFrom(key, 1, <<>>)

\* shard_pos[np.argsort(shard_len)]
SortShard(F, shard_pos) ==
  LET order == ArgSort(ShardLen(F, shard_pos))
  IN [i \in 1..Len(shard_pos) |-> shard_pos[order[i]]]

\* lens = [len(File_Line_Idx[n][pos])+2 for n in range(n_files)]
PaddedLens(F, pos) == [n \in 1..Len(F) |-> Len(F[n][pos + 1]) + 2]

\* one turn of the pack loop on position pos: add; when refused, save and reset a
\* non-empty batch, then add again, whatever that second add answers
PackOne(F, acc, pos, bsize, btype) ==
  LET lens == PaddedLens(F, pos)
      r1 == BatchAdd(acc.b, pos, lens, bsize, btype)
  IN IF r1.ret THEN [batchs |-> acc.batchs, b |-> r1.b]
     ELSE LET saved == IF BatchLen(acc.b) # 0 THEN Append(acc.batchs, acc.b.Pos) ELSE acc.batchs
              fresh == IF BatchLen(acc.b) # 0 THEN BatchReset(Len(F)) ELSE acc.b
              r2 == BatchAdd(fresh, pos, lens, bsize, btype)
          IN [batchs |-> saved, b |-> r2.b]

\* PackLast saving the batch in progress without looking at its length
PackLast_AlwaysSaves(F, acc) == [batchs |-> Append(acc.batchs, acc.b.Pos), b |-> BatchReset(Len(F))]

\* after the pack loop: save the batch in progress, if any
PackLast(F, acc) ==
  IF BatchLen(acc.b) # 0
  THEN [batchs |-> Append(acc.batchs, acc.b.Pos), b |-> BatchReset(Len(F))]
  ELSE acc

RECURSIVE PackFrom(_, _, _, _, _, _)
PackFrom(F, shard_pos, i, acc, bsize, btype) ==
  IF i > Len(shard_pos) THEN PackLast(F, acc)
  ELSE PackFrom(F, shard_pos, i + 1, PackOne(F, acc, shard_pos[i], bsize, btype), bsize, btype)

\* "build batchs": the batches of a sorted shard and the Batch object afterwards
Pack(F, shard_pos, bsize, btype) ==
  PackFrom(F, shard_pos, 1, [batchs |-> <<>>, b |-> BatchReset(Len(F))], bsize, btype)

\* Wrap reading the line of side 0 for every side
Wrap_SideZero(F, bos, eos, n, pos) == <<bos[n]>> \o F[1][pos + 1] \o <<eos[n]>>

\* [self.idx_bos[n]] + self.File_Line_Idx[n][pos] + [self.idx_eos[n]]
Wrap(F, bos, eos, n, pos) == <<bos[n]>> \o F[n][pos + 1] \o <<eos[n]>>

\* idxs_all of a batch: per side, the wrapped id sequence of every position
IdxsAll(F, bos, eos, batch) ==
  [n \in 1..Len(F) |-> [j \in 1..Len(batch) |-> Wrap(F, bos, eos, n, batch[j])]]

(***************************************************************************)
(* The iteration pass as a state machine.  pc is where the generator       *)
(* stands: "ready" (no pass begun), "shard" (about to take the next        *)
(* shard), "yield" (handing out the batches of a shard), "done" (pass      *)
(* exhausted), "error" (the pass raised).                                  *)
(***************************************************************************)
NoBatch == [Pos |-> <<>>, max_lens |-> <<>>]
NoCall == [op |-> "none", pos |-> 0, lens |-> <<>>, ret |-> FALSE, pre |-> NoBatch]
NoRnd == [Pos |-> <<>>, idx |-> <<>>]
NoFirst == [shards |-> <<>>, out |-> <<>>]

\* values of shard_size tried (0: one shard)
ShardSizes == {0, 2}

\* the fields of a Dataset object
Fields(F, bos, eos, ssize, bsize, btype, mlen) ==
  [File_Line_Idx |-> F, idx_bos |-> bos, idx_eos |-> eos, shard_size |-> ssize,
   batch_size |-> bsize, batch_type |-> btype, max_length |-> mlen]
NoFields == Fields(<<>>, <<>>, <<>>, 0, 0, "", 0)
NoVocab == [lines |-> <<>>, idx_to_tok |-> <<>>, tok_to_idx |-> <<>>]

Init ==
  /\ File_Line_Idx \in Corpora
  /\ idx_bos = [n \in 1..Len(File_Line_Idx) |-> idx_bos_v]
  /\ idx_eos = [n \in 1..Len(File_Line_Idx) |-> idx_eos_v]
  /\ shard_size \in ShardSizes
  /\ batch_size \in BatchSizes
  /\ batch_type \in BatchTypes
  /\ max_length \in MaxLengths
  /\ b = NoBatch
  /\ call = NoCall
  /\ pc = "ready"
  /\ Pos = <<>>
  /\ shards = <<>>
  /\ s = 0
  /\ batchs = <<>>
  /\ idx_batchs = <<>>
  /\ k = 0
  /\ out = <<>>
  /\ pass = 0
  /\ rnd = NoRnd
  /\ first = NoFirst
  /\ argsort_ties \in ArgSortTies
  /\ ftxts = <<>>
  /\ made = Fields(File_Line_Idx, idx_bos, idx_eos, shard_size, batch_size, batch_type, max_length)
  /\ voc = NoVocab

\* InitialPos keeping the list the previous pass shuffled
InitialPos_Leftover(n_lines) == IF Len(Pos) = n_lines THEN Pos ELSE RangeList(n_lines)

\* Pos = [i for i in range(n_lines)]
InitialPos(n_lines) == RangeList(n_lines)

\* len(self.File_Line_Idx[0]), for a Dataset that has a side
NLines == IF Len(File_Line_Idx) = 0 THEN 0 ELSE Len(File_Line_Idx[1])

\* __iter__ up to the loop over the shards, the random source's outcome being p.
\* The pass raises when the Dataset has no side (the assert) and when shard_size is
\* still 0 after the update (range() with step 0).
StartPass(p) ==
  LET n_lines == NLines
      size == IF Len(File_Line_Idx) = 0 THEN shard_size ELSE NewShardSize(shard_size, n_lines)
      P == IF Len(File_Line_Idx) = 0 THEN <<>> ELSE Shuffle(InitialPos(n_lines), p)
  IN /\ Pos' = P
     /\ shard_size' = size
     /\ IF Len(File_Line_Idx) = 0 \/ size = 0
        THEN /\ pc' = "error"
             /\ shards' = <<>>
        ELSE /\ pc' = "shard"
             /\ shards' = MakeShards(P, size)
     /\ s' = 0
     /\ batchs' = <<>>
     /\ idx_batchs' = <<>>
     /\ k' = 0
     /\ out' = <<>>
     /\ pass' = pass + 1
     /\ UNCHANGED <<File_Line_Idx, idx_bos, idx_eos, batch_size, batch_type, max_length, b, call,
                    fixedVars>>

\* the first pass: the random source may give any outcome
IterFirst ==
  /\ pc = "ready"
  /\ pass = 0
  /\ \E p \in Perms(NLines) :
       /\ StartPass(p)
       /\ rnd' = [Pos |-> p, idx |-> <<>>]
  /\ UNCHANGED first

\* a second pass in which the random source repeats its outcomes
IterAgain ==
  /\ pc = "done"
  /\ pass = 1
  /\ StartPass(rnd.Pos)
  /\ UNCHANGED <<rnd, first>>

\* "build shard" and "build batchs" for the shard about to be taken: its batches in
\* the order they were saved, and the Batch object afterwards
PackedShard ==
  Pack(File_Line_Idx,
       SortShard(File_Line_Idx, FilterShard(File_Line_Idx, max_length, shards[s + 1])),
       batch_size, batch_type)

\* one shard: build it, sort it, pack it, and shuffle the indices of its batches,
\* the random source's outcome being p
TakeShard(p) ==
  /\ batchs' = PackedShard.batchs
  /\ b' = PackedShard.b
  /\ idx_batchs' = Shuffle(RangeList(Len(PackedShard.batchs)), p)
  /\ k' = 0
  /\ s' = s + 1
  /\ pc' = "yield"
  /\ UNCHANGED <<dsVars, call, Pos, shards, out, pass, first>>

\* a shard of the first pass: the random source may give any outcome
ShardFirst ==
  /\ pc = "shard"
  /\ pass = 1
  /\ s < Len(shards)
  /\ \E p \in Perms(Len(PackedShard.batchs)) :
       /\ TakeShard(p)
       /\ rnd' = [rnd EXCEPT !.idx = Append(@, p)]

\* a shard of the second pass: the random source repeats its outcome when it is
\* asked to shuffle as many batches as in the first pass, and may give any outcome
\* for another number of them
ShardAgain ==
  /\ pc = "shard"
  /\ pass = 2
  /\ s < Len(shards)
  /\ IF Len(rnd.idx[s + 1]) = Len(PackedShard.batchs)
     THEN TakeShard(rnd.idx[s + 1])
     ELSE \E p \in Perms(Len(PackedShard.batchs)) : TakeShard(p)
  /\ UNCHANGED rnd

\* yield batchs[i], idxs_all for the next i of idx_batchs
Yield ==
  /\ pc = "yield"
  /\ k < Len(idx_batchs)
  /\ LET i == idx_batchs[k + 1]
     IN out' = Append(out, [Pos |-> batchs[i + 1],
                            idxs_all |-> IdxsAll(File_Line_Idx, idx_bos, idx_eos, batchs[i + 1]),
                            s |-> s,
                            i |-> i])
  /\ k' = k + 1
  /\ UNCHANGED <<dsVars, b, call, pc, Pos, shards, s, batchs, idx_batchs, pass, rnd, first>>

\* the batches of the shard are exhausted: back to the loop over the shards
ShardDone ==
  /\ pc = "yield"
  /\ k = Len(idx_batchs)
  /\ pc' = "shard"
  /\ UNCHANGED <<dsVars, b, call, Pos, shards, s, batchs, idx_batchs, k, out, pass, rnd, first>>

\* the shards are exhausted: the generator returns
Finish ==
  /\ pc = "shard"
  /\ s = Len(shards)
  /\ pc' = "done"
  /\ first' = IF pass = 1 THEN [shards |-> shards, out |-> out] ELSE first
  /\ UNCHANGED <<dsVars, b, call, Pos, shards, s, batchs, idx_batchs, k, out, pass, rnd>>

\* the consumer stops asking after a yield: the generator is never resumed
Abandon ==
  /\ pc = "yield"
  /\ k >= 1
  /\ pc' = "abandoned"
  /\ UNCHANGED <<dsVars, b, call, itVars>>

Next ==
  \/ IterFirst
  \/ IterAgain
  \/ ShardFirst
  \/ ShardAgain
  \/ Yield
  \/ ShardDone
  \/ Finish
  \/ Abandon

Spec == Init /\ [][Next]_vars

(***************************************************************************)
(* The Batch object on its own, driven by any sequence of reset and add    *)
(* calls.  call records the last call: its arguments, the value it         *)
(* returned and the object as it was before (pre).                         *)
(***************************************************************************)
InitBatch ==
  /\ File_Line_Idx = <<>>
  /\ idx_bos = <<>>
  /\ idx_eos = <<>>
  /\ shard_size = 0
  /\ batch_size \in BatchSizes
  /\ batch_type \in BatchTypes
  /\ max_length = 0
  /\ \E nf \in SideCounts : b = BatchReset(nf)
  /\ call = NoCall
  /\ pc = "batch"
  /\ Pos = <<>>
  /\ shards = <<>>
  /\ s = 0
  /\ batchs = <<>>
  /\ idx_batchs = <<>>
  /\ k = 0
  /\ out = <<>>
  /\ pass = 0
  /\ rnd = NoRnd
  /\ first = NoFirst
  /\ argsort_ties = "stable"
  /\ ftxts = <<>>
  /\ made = NoFields
  /\ voc = NoVocab

\* b.reset(n_files)
DoReset ==
  /\ pc = "batch"
  /\ b' = BatchReset(Len(b.max_lens))
  /\ call' = [op |-> "reset", pos |-> 0, lens |-> <<>>, ret |-> FALSE, pre |-> b]
  /\ UNCHANGED <<dsVars, pc, itVars>>

\* b.add(pos, lens), for any position not yet in the batch and any lengths, one per
\* side
DoAdd ==
  /\ pc = "batch"
  /\ \E pos \in (0..(MaxLines - 1)) \ Range(b.Pos), lens \in [1..Len(b.max_lens) -> {0} \cup {l + 2 : l \in LineLens}] :
       LET r == BatchAdd(b, pos, lens, batch_size, batch_type)
       IN /\ b' = r.b
          /\ call' = [op |-> "add", pos |-> pos, lens |-> lens, ret |-> r.ret, pre |-> b]
  /\ UNCHANGED <<dsVars, pc, itVars>>

NextBatch ==
  \/ DoReset
  \/ DoAdd

SpecBatch == InitBatch /\ [][NextBatch]_vars

(***************************************************************************)
(* Properties of Batch.add, stated for SpecBatch.                          *)
(***************************************************************************)
Sides(bb) == 1..Len(bb.max_lens)

\* the last call was an add under the token policy
TokenAdd == pc = "batch" /\ batch_type = "tokens" /\ call.op = "add"
\* the last call was an add under the sentence policy
SentenceAdd == pc = "batch" /\ batch_type = "sentences" /\ call.op = "add"

\* side i would overflow the capacity if the example of the last add joined the batch
Overflows(i) == Max(call.pre.max_lens[i], call.lens[i]) * (Len(call.pre.Pos) + 1) > batch_size

\* C5 as stated: under the token policy, after an accepted add every side has
\* (running maximum) * (current size + 1) <= capacity.
C5_AsStated ==
  (TokenAdd /\ call.ret) =>
     \A i \in Sides(b) : b.max_lens[i] * (Len(b.Pos) + 1) <= batch_size

\* C5, amended: under the token policy, after an accepted add every side has
\* (running maximum) * (current size) <= capacity, the size counting the example
\* just accepted.
C5_MaxTimesSize ==
  (TokenAdd /\ call.ret) =>
     \A i \in Sides(b) : b.max_lens[i] * Len(b.Pos) <= batch_size

\* an add accepted as the second or later example of a batch, with a positive maximum
C5_Witness ==
  /\ TokenAdd
  /\ call.ret
  /\ Len(b.Pos) >= 2
  /\ \E i \in Sides(b) : b.max_lens[i] > 0

\* C6: under the token policy add returns false exactly when some side i has
\* max(currentMax_i, lens[i]) * (currentSize + 1) > capacity; otherwise it returns
\* true, the position becomes the last accepted one and every maximum becomes
\* max(currentMax_i, lens[i]).
C6_TokenAdd ==
  TokenAdd =>
     /\ call.ret = ~(\E i \in Sides(b) : Overflows(i))
     /\ call.ret =>
          /\ b.Pos = Append(call.pre.Pos, call.pos)
          /\ Len(b.max_lens) = Len(call.pre.max_lens)
          /\ \A i \in Sides(b) : b.max_lens[i] = Max(call.pre.max_lens[i], call.lens[i])

\* an add refused because of a side whose maximum would not grow, while the side
\* whose maximum would grow still fits
C6_Witness ==
  /\ TokenAdd
  /\ ~call.ret
  /\ \E i, j \in Sides(b) :
       /\ call.lens[i] <= call.pre.max_lens[i]
       /\ Overflows(i)
       /\ call.lens[j] > call.pre.max_lens[j]
       /\ ~Overflows(j)

\* C7: whenever add returns false, under either policy, the accepted positions and
\* every per-side maximum are what they were before the call.
C7_RejectUnchanged ==
  (pc = "batch" /\ call.op = "add" /\ ~call.ret) => b = call.pre

\* an add refused by the last side after an earlier side, whose maximum would have
\* grown, passed the test
C7_Witness ==
  /\ TokenAdd
  /\ ~call.ret
  /\ call.lens[1] > call.pre.max_lens[1]
  /\ ~Overflows(1)
  /\ Overflows(Len(b.max_lens))

\* C8: under the sentence policy add returns false exactly when the current size
\* equals the capacity, whatever the lengths; on acceptance the lengths still raise
\* the maxima.
C8_SentenceAdd ==
  SentenceAdd =>
     /\ call.ret = (Len(call.pre.Pos) # batch_size)
     /\ call.ret =>
          /\ b.Pos = Append(call.pre.Pos, call.pos)
          /\ \A i \in Sides(b) : b.max_lens[i] = Max(call.pre.max_lens[i], call.lens[i])

\* an add accepted under the sentence policy although its lengths would overflow a
\* token budget of the same value, and which raised a maximum
C8_Witness ==
  /\ SentenceAdd
  /\ call.ret
  /\ \E i \in Sides(b) : Overflows(i) /\ b.max_lens[i] > call.pre.max_lens[i]

(***************************************************************************)
(* Properties of the iteration pass, stated for Spec.                      *)
(***************************************************************************)
\* the positions of the corpus
AllPositions == 0..(Len(File_Line_Idx[1]) - 1)

\* the sides of the corpus
AllSides == 1..Len(File_Line_Idx)

\* raw length of position p on side n
RawLen(n, p) == Len(File_Line_Idx[n][p + 1])

\* p passes the length filter: its largest raw length is within max_length, or no
\* max_length is set
WithinMaxLength(p) == max_length = 0 \/ \A n \in AllSides : RawLen(n, p) <= max_length

\* under the token policy, the padded length of p on some side exceeds the capacity
TooLongForBatch(p) == batch_type = "tokens" /\ \E n \in AllSides : RawLen(n, p) + 2 > batch_size

\* the positions yielded so far in the pass
YieldedSet == UNION {Range(out[j].Pos) : j \in 1..Len(out)}

RECURSIVE TotalYielded(_)
\* how many positions the batches of o hold, repetitions counted
TotalYielded(o) == IF o = <<>> THEN 0 ELSE Len(Head(o).Pos) + TotalYielded(Tail(o))

\* largest raw length on side n among the positions of batch B (0 for no position)
MaxRaw(n, B) ==
  IF B = <<>> THEN 0
  ELSE CHOOSE m \in {RawLen(n, B[i]) : i \in 1..Len(B)} : \A i \in 1..Len(B) : RawLen(n, B[i]) <= m

\* C1 as stated: the positions yielded over one full pass are exactly the positions
\* within max_length, none twice and none omitted.
C1_AsStated ==
  pc = "done" =>
     /\ YieldedSet = {p \in AllPositions : WithinMaxLength(p)}
     /\ TotalYielded(out) = Cardinality(YieldedSet)

\* C2 as stated: under the token policy a kept position whose padded length on some
\* side exceeds the capacity is yielded as a batch of that single position.
C2_AsStated ==
  (pc = "done" /\ batch_type = "tokens") =>
     \A p \in AllPositions :
        (WithinMaxLength(p) /\ TooLongForBatch(p)) => \E j \in 1..Len(out) : out[j].Pos = <<p>>

\* C3: under the token policy with capacity T every yielded batch has, on every
\* side, (largest raw length + 2) * (number of examples) <= T, unless it is a
\* single example whose own padded length exceeds T.
C3_TokenBudget ==
  (pc \in {"shard", "yield", "done"} /\ batch_type = "tokens") =>
     \A j \in 1..Len(out) :
        LET B == out[j].Pos
        IN \/ \A n \in AllSides : (MaxRaw(n, B) + 2) * Len(B) <= batch_size
           \/ Len(B) = 1 /\ \E n \in AllSides : RawLen(n, B[1]) + 2 > batch_size

\* under the token policy, a shard gave two batches, one of them of several examples
\* that fill the capacity on some side
C3_Witness ==
  /\ batch_type = "tokens"
  /\ \E i, j \in 1..Len(out) :
       /\ i # j
       /\ out[i].s = out[j].s
       /\ Len(out[j].Pos) >= 2
       /\ \E n \in AllSides : (MaxRaw(n, out[j].Pos) + 2) * Len(out[j].Pos) = batch_size

\* C4: under the sentence policy with capacity C every yielded batch holds at most
\* C positions.
C4_SentenceBudget ==
  (pc \in {"shard", "yield", "done"} /\ batch_type = "sentences") =>
     \A j \in 1..Len(out) : Len(out[j].Pos) <= batch_size

\* under the sentence policy, a shard gave a batch of exactly C positions and one more
\* batch
C4_Witness ==
  /\ batch_type = "sentences"
  /\ \E i, j \in 1..Len(out) :
       /\ i # j
       /\ out[i].s = out[j].s
       /\ Len(out[j].Pos) = batch_size

\* e without its first and its last element
Strip(e) == SubSeq(e, 2, Len(e) - 1)

\* C9: in every yielded batch every side has one id sequence per position, and the
\* sequence of side n at index j is the begin id of side n, the stored ids of that
\* position on side n, the end id of side n; stripping the first and last element
\* gives back the stored ids.
C9_Wrapped ==
  pc \in {"shard", "yield", "done"} =>
     \A x \in 1..Len(out) :
        /\ Len(out[x].idxs_all) = Len(File_Line_Idx)
        /\ \A n \in AllSides :
             /\ Len(out[x].idxs_all[n]) = Len(out[x].Pos)
             /\ \A j \in 1..Len(out[x].Pos) :
                  LET e == out[x].idxs_all[n][j]
                      stored == File_Line_Idx[n][out[x].Pos[j] + 1]
                  IN /\ Len(e) = Len(stored) + 2
                     /\ e[1] = idx_bos[n]
                     /\ e[Len(e)] = idx_eos[n]
                     /\ Strip(e) = stored

\* a yielded batch of several positions, one of which has different ids on the two
\* sides
C9_Witness ==
  \E x \in 1..Len(out) :
     /\ Len(out[x].Pos) >= 2
     /\ \E j \in 1..Len(out[x].Pos) :
          /\ out[x].idxs_all[1][j] # out[x].idxs_all[2][j]
          /\ Len(out[x].idxs_all[1][j]) >= 3

\* C10: a second pass over the same corpus and configuration in which the random
\* source repeats its outcomes has the same shards and yields the same batches in
\* the same order as the first.
C10_Deterministic ==
  (pc = "done" /\ pass = 2) => (shards = first.shards /\ out = first.out)

\* a finished second pass of several shards and several batches whose first shuffle
\* moved a position
C10_Witness ==
  /\ pc = "done"
  /\ pass = 2
  /\ Len(shards) >= 2
  /\ Len(out) >= 2
  /\ Pos # RangeList(Len(Pos))

(***************************************************************************)
(* Dataset.__init__ as a state machine, followed by the passes over the    *)
(* Dataset it made.  pc is "new" while the sides are being loaded,         *)
(* "init_error" when __init__ raised, "ready" when it returned.            *)
(***************************************************************************)
\* numbers of sides handed to __init__
NewSideCounts == {0, 2, 3}
\* raw lengths of the lines of a file handed to __init__, the same for all its lines
NewLineLens == {0, 1}

\* the files handed to __init__: any number of lines on every side
InputFiles ==
  UNION {{[n \in 1..nf |-> [p \in 1..c[n] |-> LineOf(n, p - 1, l[n])]] :
            c \in [1..nf -> 0..MaxLines], l \in [1..nf -> NewLineLens]} :
         nf \in NewSideCounts}

RECURSIVE CountIds(_)
CountIds(lines) == IF lines = <<>> THEN 0 ELSE Len(Head(lines)) + CountIds(Tail(lines))

RECURSIVE CountIn(_, _)
CountIn(ids, lc) ==
  IF ids = <<>> THEN 0 ELSE (IF Head(ids) \in lc THEN 1 ELSE 0) + CountIn(Tail(ids), lc)

RECURSIVE CountUnk(_, _)
CountUnk(lines, lc) ==
  IF lines = <<>> THEN 0 ELSE CountIn(Head(lines), lc) + CountUnk(Tail(lines), lc)

\* flatten_count(Line_Idx, [voc.idx_unk]): the number of ids and the number of them
\* that are in lc
flatten_count(lines, lc) == [n_tok |-> CountIds(lines), n_unk |-> CountUnk(lines, lc)]

\* ParallelCheck asking nothing of the sides between the first and the last
ParallelCheck_Late(F) == Len(F) = 2 \/ Len(F[1]) = Len(F[Len(F)])

\* assert len(self.File_Line_Idx[0]) == len(self.File_Line_Idx[-1])
ParallelCheck(F) == Len(F[1]) = Len(F[Len(F)])

InitNew ==
  /\ ftxts \in InputFiles
  /\ File_Line_Idx = <<>>
  /\ idx_bos = <<>>
  /\ idx_eos = <<>>
  /\ shard_size \in ShardSizes
  /\ batch_size \in BatchSizes
  /\ batch_type \in BatchTypes
  /\ max_length \in MaxLengths
  /\ b = NoBatch
  /\ call = NoCall
  /\ pc = "new"
  /\ Pos = <<>>
  /\ shards = <<>>
  /\ s = 0
  /\ batchs = <<>>
  /\ idx_batchs = <<>>
  /\ k = 0
  /\ out = <<>>
  /\ pass = 0
  /\ rnd = NoRnd
  /\ first = NoFirst
  /\ argsort_ties \in ArgSortTies
  /\ made = NoFields
  /\ voc = NoVocab

\* one turn of the loop of __init__: load the next side, log its statistics, check it
\* against the first side
LoadSide ==
  /\ pc = "new"
  /\ Len(File_Line_Idx) < Len(ftxts)
  /\ LET i == Len(File_Line_Idx) + 1
         Line_Idx == ftxts[i]
         F == Append(File_Line_Idx, Line_Idx)
     IN /\ idx_bos' = Append(idx_bos, idx_bos_v)
        /\ idx_eos' = Append(idx_eos, idx_eos_v)
        /\ File_Line_Idx' = F
        /\ \E stats \in StatsOutcomes(flatten_count(Line_Idx, {idx_unk_v})) :
             pc' = IF stats = "raises" \/ ~ParallelCheck(F) THEN "init_error" ELSE "new"
  /\ UNCHANGED <<shard_size, batch_size, batch_type, max_length, fixedVars, b, call, itVars>>

\* the loop of __init__ is over: the Dataset is made
Loaded ==
  /\ pc = "new"
  /\ Len(File_Line_Idx) = Len(ftxts)
  /\ pc' = "ready"
  /\ made' = Fields(File_Line_Idx, idx_bos, idx_eos, shard_size, batch_size, batch_type, max_length)
  /\ UNCHANGED <<File_Line_Idx, idx_bos, idx_eos, shard_size, batch_size, batch_type, max_length,
                 argsort_ties, ftxts, voc, b, call, itVars>>

NextNew ==
  \/ LoadSide
  \/ Loaded
  \/ Next

SpecNew == InitNew /\ [][NextNew]_vars

(***************************************************************************)
(* Properties of Dataset.__init__ and of the first step of a pass, stated  *)
(* for SpecNew.                                                            *)
(***************************************************************************)
\* two of the files handed to __init__ have different numbers of lines
NonParallel == \E m, n \in 1..Len(ftxts) : Len(ftxts[m]) # Len(ftxts[n])

\* C11: __init__ fails whenever two of the N >= 2 sides have different numbers of
\* examples, whichever side it is; it never returns with sides of unequal length.
C11_NonParallelFails ==
  /\ (pc \notin {"new", "init_error"}) => ~NonParallel
  /\ (pc \notin {"new", "init_error"}) =>
        \A m, n \in 1..Len(File_Line_Idx) : Len(File_Line_Idx[m]) = Len(File_Line_Idx[n])
  /\ (pc = "new" /\ NonParallel) => Len(File_Line_Idx) < Len(ftxts)

\* __init__ raised on three sides of which only the middle one has another number of
\* lines, every side having ids
C11_Witness ==
  /\ pc = "init_error"
  /\ Len(ftxts) = 3
  /\ Len(ftxts[1]) = Len(ftxts[3])
  /\ Len(ftxts[2]) # Len(ftxts[1])
  /\ \A n \in 1..3 : CountIds(ftxts[n]) > 0

\* the Dataset holds no example: it has no side, or sides without lines
EmptyCorpus == NLines = 0

\* C12: a pass requested over a corpus of zero examples halts with an error and
\* yields nothing, whatever shard_size is.
C12_EmptyFatal ==
  (pc \notin {"new", "init_error", "ready"} /\ EmptyCorpus) => (pc = "error" /\ out = <<>>)

(***************************************************************************)
(* Vocab.__init__ as a state machine.  pc is "vocab_new" before the file   *)
(* is read, "vocab_read" before the asserts, then "vocab_ok" when __init__ *)
(* returned and "vocab_error" when it raised.                              *)
(***************************************************************************)
str_pad == "<pad>"
str_unk == "<unk>"
str_bos == "<bos>"
str_eos == "<eos>"

\* the token strings a vocabulary file is made of
Toks == {str_pad, str_unk, str_bos, str_eos, "a", "b"}

\* the vocabulary files: lists of distinct token strings
VocabFiles ==
  UNION {{l \in [1..n -> Toks] : \A i, j \in 1..n : l[i] = l[j] => i = j} : n \in 0..MaxVocab}

\* {k:i for i,k in enumerate(self.idx_to_tok)}: the last index of every token
TokToIdx(lines) ==
  [tk \in Range(lines) |->
     CHOOSE i \in 0..(Len(lines) - 1) :
       /\ lines[i + 1] = tk
       /\ \A j \in 0..(Len(lines) - 1) : lines[j + 1] = tk => j <= i]

\* HasId that only asks for the token to be in the table
HasId_Anywhere(tti, tk, id) == tk \in DOMAIN tti

\* assert self.tok_to_idx[tk] == id, the lookup raising KeyError for a missing token
HasId(tti, tk, id) == tk \in DOMAIN tti /\ tti[tk] = id

\* the four asserts of Vocab.__init__
ReservedOk(tti) ==
  /\ HasId(tti, str_pad, idx_pad_v)
  /\ HasId(tti, str_unk, idx_unk_v)
  /\ HasId(tti, str_bos, idx_bos_v)
  /\ HasId(tti, str_eos, idx_eos_v)

InitVocab ==
  /\ voc \in {[lines |-> l, idx_to_tok |-> <<>>, tok_to_idx |-> <<>>] : l \in VocabFiles}
  /\ pc = "vocab_new"
  /\ File_Line_Idx = <<>>
  /\ idx_bos = <<>>
  /\ idx_eos = <<>>
  /\ shard_size = 0
  /\ batch_size = 0
  /\ batch_type = ""
  /\ max_length = 0
  /\ b = NoBatch
  /\ call = NoCall
  /\ Pos = <<>>
  /\ shards = <<>>
  /\ s = 0
  /\ batchs = <<>>
  /\ idx_batchs = <<>>
  /\ k = 0
  /\ out = <<>>
  /\ pass = 0
  /\ rnd = NoRnd
  /\ first = NoFirst
  /\ argsort_ties = "stable"
  /\ ftxts = <<>>
  /\ made = NoFields

\* the with block: read the lines, build the two tables
ReadVocab ==
  /\ pc = "vocab_new"
  /\ voc' = [voc EXCEPT !.idx_to_tok = voc.lines, !.tok_to_idx = TokToIdx(voc.lines)]
  /\ pc' = "vocab_read"
  /\ UNCHANGED <<File_Line_Idx, idx_bos, idx_eos, shard_size, batch_size, batch_type, max_length,
                 argsort_ties, ftxts, made, b, call, itVars>>

\* the asserts
CheckVocab ==
  /\ pc = "vocab_read"
  /\ pc' = IF ReservedOk(voc.tok_to_idx) THEN "vocab_ok" ELSE "vocab_error"
  /\ UNCHANGED <<dsVars, b, call, itVars>>

NextVocab ==
  \/ ReadVocab
  \/ CheckVocab

SpecVocab == InitVocab /\ [][NextVocab]_vars

(***************************************************************************)
(* Properties of Vocab.__init__, stated for SpecVocab.                     *)
(***************************************************************************)
\* the list starts with <pad>, <unk>, <bos>, <eos>
ReservedFirst(l) == Len(l) >= 4 /\ SubSeq(l, 1, 4) = <<str_pad, str_unk, str_bos, str_eos>>

\* C13: Vocab.__init__ on a list of distinct tokens raises when the list has fewer
\* than 4 entries or does not start with <pad>, <unk>, <bos>, <eos>, and returns
\* otherwise; every table made maps them to 0, 1, 2, 3.
C13_ReservedIds ==
  /\ pc = "vocab_error" => ~ReservedFirst(voc.lines)
  /\ pc = "vocab_ok" =>
       /\ ReservedFirst(voc.lines)
       /\ voc.tok_to_idx[str_pad] = 0
       /\ voc.tok_to_idx[str_unk] = 1
       /\ voc.tok_to_idx[str_bos] = 2
       /\ voc.tok_to_idx[str_eos] = 3
       /\ SubSeq(voc.idx_to_tok, 1, 4) = <<str_pad, str_unk, str_bos, str_eos>>

\* __init__ raised on a list that holds the four reserved tokens, one of them too late
C13_Witness ==
  /\ pc = "vocab_error"
  /\ {str_pad, str_unk, str_bos, str_eos} \subseteq Range(voc.lines)
  /\ SubSeq(voc.lines, 1, 3) = <<str_pad, str_unk, str_bos>>

(***************************************************************************)
(* Properties of the shards, of the sort and of the packing, stated for    *)
(* Spec.                                                                   *)
(***************************************************************************)
\* a pass has built its shards
InPass == pc \in {"shard", "yield", "done", "abandoned"}

\* the positions of B come in non-decreasing side-0 raw length
Ascending(B) == \A i, j \in 1..Len(B) : i < j => RawLen(1, B[i]) <= RawLen(1, B[j])

\* no position of B1 is longer on side 0 than a position of B2
AllBelow(B1, B2) == \A i \in 1..Len(B1) : \A j \in 1..Len(B2) : RawLen(1, B1[i]) <= RawLen(1, B2[j])

\* C14: inside every yielded batch the positions come in non-decreasing side-0 raw
\* length, and the side-0 lengths of two batches of one shard do not interleave.
C14_LengthOrder ==
  InPass =>
     \A x \in 1..Len(out) :
        /\ Ascending(out[x].Pos)
        /\ \A y \in 1..Len(out) :
             (x # y /\ out[x].s = out[y].s) => (AllBelow(out[x].Pos, out[y].Pos) \/ AllBelow(out[y].Pos, out[x].Pos))

\* a finished pass whose shuffle put a longer position before a shorter one in a
\* shard that gave two batches, one of them holding two lengths
C14_Witness ==
  /\ pc = "done"
  /\ Len(shards) = 1
  /\ RawLen(1, Pos[1]) > RawLen(1, Pos[Len(Pos)])
  /\ \E x, y \in 1..Len(out) :
       /\ x # y
       /\ Len(out[x].Pos) >= 2
       /\ RawLen(1, out[x].Pos[1]) < RawLen(1, out[x].Pos[Len(out[x].Pos)])

RECURSIVE Flatten(_)
\* the lists of q one after the other
Flatten(q) == IF q = <<>> THEN <<>> ELSE Head(q) \o Flatten(Tail(q))

\* index of position p in the pass's permutation
IndexInPos(p) == CHOOSE i \in 1..Len(Pos) : Pos[i] = p

\* C15: two positions of a shard with equal side-0 raw length are packed in the
\* order in which the pass's permutation has them.
C15_TiesKeepOrder ==
  pc = "yield" =>
     LET packed == Flatten(batchs)
     IN \A i, j \in 1..Len(packed) :
           (i < j /\ RawLen(1, packed[i]) = RawLen(1, packed[j]))
              => IndexInPos(packed[i]) < IndexInPos(packed[j])

\* the shard of position p
ShardOf(p) == CHOOSE c \in 1..Len(shards) : p \in Range(shards[c])

\* the shard size of the pass: the whole corpus when the Dataset was made with 0
ChunkSize == IF made.shard_size = 0 THEN Len(Pos) ELSE made.shard_size

\* C16: the shards are the contiguous chunks of ChunkSize positions of the pass's
\* permutation, the last one possibly smaller; the positions of a yielded batch are
\* all of one shard, and the batches of a shard are yielded before those of the next.
C16_Shards ==
  InPass =>
     /\ Flatten(shards) = Pos
     /\ \A c \in 1..Len(shards) :
          /\ Len(shards[c]) >= 1
          /\ Len(shards[c]) <= ChunkSize
          /\ c < Len(shards) => Len(shards[c]) = ChunkSize
     /\ \A x \in 1..Len(out) :
          /\ \A i, j \in 1..Len(out[x].Pos) : ShardOf(out[x].Pos[i]) = ShardOf(out[x].Pos[j])
          /\ \A y \in 1..Len(out) :
               (x < y /\ out[x].Pos # <<>> /\ out[y].Pos # <<>>)
                  => ShardOf(out[x].Pos[1]) <= ShardOf(out[y].Pos[1])

\* a finished pass of a full and a smaller shard, the first of which gave a batch of
\* two positions that the shuffle did not leave in file order
C16_Witness ==
  /\ pc = "done"
  /\ Len(shards) = 2
  /\ Len(shards[2]) < Len(shards[1])
  /\ Len(out) >= 2
  /\ Len(out[1].Pos) = 2
  /\ Pos # RangeList(Len(Pos))

\* the attributes of the Dataset as they are now
FieldsNow == Fields(File_Line_Idx, idx_bos, idx_eos, shard_size, batch_size, batch_type, max_length)

\* C17: after a pass, finished or abandoned, shard_size, batch_size, batch_type,
\* max_length, the begin and end ids and the stored id sequences are what they were
\* when the Dataset was made, also when it was made with shard_size 0.
C17_PassKeepsFields ==
  pc \in {"done", "abandoned"} => FieldsNow = made

\* add's rule for taking position q into a batch that holds the positions B
FitsAfter(B, q) ==
  IF batch_type = "tokens"
  THEN \A n \in AllSides : Max(MaxRaw(n, B) + 2, RawLen(n, q) + 2) * (Len(B) + 1) <= batch_size
  ELSE Len(B) # batch_size

\* under the sentence policy every batch of the shard but the last created is full
FullButLast == batch_type = "sentences" => \A x \in 1..(Len(batchs) - 1) : Len(batchs[x]) = batch_size

\* C18 as stated: of two batches created one after the other in a shard, the first
\* position of the later one would not have fitted into the earlier one; under the
\* sentence policy every batch but the last created has batch_size positions.
C18_AsStated ==
  pc = "yield" =>
     /\ \A x \in 1..(Len(batchs) - 1) : ~FitsAfter(batchs[x], batchs[x + 1][1])
     /\ FullButLast

RECURSIVE CountOf(_, _)
\* how many elements of the list B are p
CountOf(B, p) == IF B = <<>> THEN 0 ELSE (IF Head(B) = p THEN 1 ELSE 0) + CountOf(Tail(B), p)

RECURSIVE Occurrences(_, _)
\* how many times position p is in the batches of o
Occurrences(o, p) == IF o = <<>> THEN 0 ELSE CountOf(Head(o).Pos, p) + Occurrences(Tail(o), p)

\* C19: after a full pass a position removed by the length filter is in no yielded
\* batch, a kept position is in exactly one unless the policy is tokens and its
\* padded length on some side exceeds batch_size, and no position is in more than
\* one.
C19_MissingOnlyOversize ==
  pc = "done" =>
     \A p \in AllPositions :
        /\ Occurrences(out, p) <= 1
        /\ ~WithinMaxLength(p) => Occurrences(out, p) = 0
        /\ (WithinMaxLength(p) /\ Occurrences(out, p) = 0) => TooLongForBatch(p)
        /\ (WithinMaxLength(p) /\ batch_type = "sentences") => Occurrences(out, p) = 1

\* a finished pass with a filter set, in which one position was filtered out, a kept
\* one is missing and a third was yielded once
C19_Witness ==
  /\ pc = "done"
  /\ max_length # 0
  /\ \E p, q, r \in AllPositions :
       /\ ~WithinMaxLength(p)
       /\ WithinMaxLength(q) /\ Occurrences(out, q) = 0
       /\ Occurrences(out, r) = 1

\* position p is accepted by no batch: the filter removes it or add refuses it twice
NeverAccepted(p) == ~WithinMaxLength(p) \/ TooLongForBatch(p)

\* C20: every yielded batch, and every batch built for a shard, holds at least one
\* position; a shard none of whose positions is accepted gives no batch at all.
C20_NoEmptyBatch ==
  /\ InPass => \A x \in 1..Len(out) :
                  /\ Len(out[x].Pos) >= 1
                  /\ \A n \in AllSides : Len(out[x].idxs_all[n]) >= 1
  /\ pc = "yield" =>
       /\ \A x \in 1..Len(batchs) : Len(batchs[x]) >= 1
       /\ (\A p \in Range(shards[s]) : NeverAccepted(p)) => (batchs = <<>> /\ idx_batchs = <<>>)

\* a finished pass of two shards, one of which had no accepted position while the
\* other lost a position to the filter or to the refused retry and gave a batch
C20_Witness ==
  /\ pc = "done"
  /\ Len(shards) = 2
  /\ out # <<>>
  /\ \E c \in 1..2 : \A p \in Range(shards[c]) : NeverAccepted(p)
  /\ \E c \in 1..2 : \E p, q \in Range(shards[c]) : NeverAccepted(p) /\ ~NeverAccepted(q)
=============================================================================
